---- MODULE Spec2Model ----
(***************************************************************************)
(* Course registration system (src/app.py): the course calendar, the      *)
(* three-line credentials record, the registration workflow of            *)
(* check_and_register_courses, the per-account scheduler and the          *)
(* supervisor that starts one scheduler thread per account.               *)
(*                                                                         *)
(* Strings are sequences of character codes (ASCII), so that sorting,     *)
(* splitting, stripping and joining are computed as Python computes them. *)
(* A datetime is the number of seconds since a Monday 00:00:00; weekday   *)
(* 0 is Monday as in datetime.weekday().  Sub-second parts are not kept.  *)
(***************************************************************************)
EXTENDS Integers, Sequences, FiniteSets, TLC

----------------------------------------------------------------------------
(* Characters and strings *)

NL == 10
SPACE == 32
BANG == 33
COMMA == 44

\* str.strip() removes these from both ends.
Whitespace == {9, 10, 11, 12, 13, 32}

RECURSIVE StrLess(_, _)
\* Python's < on str: lexicographic by code point, a proper prefix is smaller.
StrLess(a, b) ==
    IF b = <<>> THEN FALSE
    ELSE IF a = <<>> THEN TRUE
    ELSE IF Head(a) # Head(b) THEN Head(a) < Head(b)
    ELSE StrLess(Tail(a), Tail(b))

RECURSIVE LStrip(_)
LStrip(s) ==
    IF s # <<>> /\ Head(s) \in Whitespace THEN LStrip(Tail(s)) ELSE s

RECURSIVE RStrip(_)
RStrip(s) ==
    IF s # <<>> /\ s[Len(s)] \in Whitespace
    THEN RStrip(SubSeq(s, 1, Len(s) - 1))
    ELSE s

\* str.strip()
Strip(s) == RStrip(LStrip(s))

RECURSIVE SplitFrom(_, _, _)
\* str.split(sep) for a one-character separator: cur is the piece being read.
SplitFrom(s, sep, cur) ==
    IF s = <<>> THEN <<cur>>
    ELSE IF Head(s) = sep THEN <<cur>> \o SplitFrom(Tail(s), sep, <<>>)
    ELSE SplitFrom(Tail(s), sep, Append(cur, Head(s)))

Split(s, sep) == SplitFrom(s, sep, <<>>)

RECURSIVE Join(_, _)
\* sep.join(parts)
Join(parts, sep) ==
    IF parts = <<>> THEN <<>>
    ELSE IF Len(parts) = 1 THEN parts[1]
    ELSE parts[1] \o sep \o Join(Tail(parts), sep)

StartsWithBang(s) == s # <<>> /\ Head(s) = BANG

SeqToSet(q) == {q[i] : i \in 1..Len(q)}

RECURSIVE Sorted(_)
\* sorted(set of str): ascending by StrLess.
Sorted(S) ==
    IF S = {} THEN <<>>
    ELSE LET m == CHOOSE x \in S : \A y \in S \ {x} : StrLess(x, y)
         IN  <<m>> \o Sorted(S \ {m})

----------------------------------------------------------------------------
(* Course calendar *)

C_051001 == <<48, 53, 49, 48, 48, 49>>
C_051002 == <<48, 53, 49, 48, 48, 50>>
C_051003 == <<48, 53, 49, 48, 48, 51>>
C_051011 == <<48, 53, 49, 48, 49, 49>>
C_051012 == <<48, 53, 49, 48, 49, 50>>
C_0510011 == <<48, 53, 49, 48, 48, 49, 49>>

\* A row label that is not a key of the course table.
C_Unknown == <<48, 53, 49, 48, 50, 48>>

\* "HH:MM" strings of the table
T_1800 == <<49, 56, 58, 48, 48>>
T_1630 == <<49, 54, 58, 51, 48>>
T_1515 == <<49, 53, 58, 49, 53>>
T_2100 == <<50, 49, 58, 48, 48>>
T_1830 == <<49, 56, 58, 51, 48>>

course_day_time_mapping ==
    ( C_051001  :> [day_index |-> 2, start_time |-> T_1800] ) @@
    ( C_051002  :> [day_index |-> 4, start_time |-> T_1630] ) @@
    ( C_051003  :> [day_index |-> 6, start_time |-> T_1515] ) @@
    ( C_051011  :> [day_index |-> 1, start_time |-> T_2100] ) @@
    ( C_051012  :> [day_index |-> 4, start_time |-> T_1800] ) @@
    ( C_0510011 :> [day_index |-> 2, start_time |-> T_1830] )

\* The keys in the order of the dict literal (iteration order of .items()).
CourseOrder == <<C_051001, C_051002, C_051003, C_051011, C_051012, C_0510011>>

CourseNumbers == DOMAIN course_day_time_mapping

MinuteSecs == 60
HourSecs == 3600
DaySecs == 86400
WeekDays == 7
WeekSecs == WeekDays * DaySecs

\* The value of a function that returns None.
None == -1

\* datetime.strptime(s, "%H:%M"): hour and minute of "HH:MM".
Strptime(s) ==
    [hour   |-> (s[1] - 48) * 10 + (s[2] - 48),
     minute |-> (s[4] - 48) * 10 + (s[5] - 48)]

\* datetime.weekday(), .time() in seconds since midnight, and the date (day number)
Weekday(t) == (t \div DaySecs) % WeekDays
TimeOfDay(t) == t % DaySecs
DateOf(t) == t \div DaySecs

\* current_time.replace(hour=h, minute=m, second=0, microsecond=0)
ReplaceTime(t, h, m) == DateOf(t) * DaySecs + h * HourSecs + m * MinuteSecs

\* Mutant of SlotTimePassed: a slot that starts exactly now counts as passed.
SlotTimePassed_orNow(now_time, start_seconds) == now_time >= start_seconds

\* current_time.time() > start_time.time()
SlotTimePassed(now_time, start_seconds) == now_time > start_seconds

calculate_next_course_time(course_number, current_time) ==
    IF course_number \notin DOMAIN course_day_time_mapping THEN None
    ELSE
        LET course_info == course_day_time_mapping[course_number]
            course_day_index == course_info.day_index
            start_time == Strptime(course_info.start_time)
            course_start_datetime ==
                ReplaceTime(current_time, start_time.hour, start_time.minute)
            modulo == (course_day_index - Weekday(current_time)) % WeekDays
            days_difference ==
                IF modulo = 0
                   /\ SlotTimePassed(TimeOfDay(current_time),
                        start_time.hour * HourSecs + start_time.minute * MinuteSecs)
                THEN 7
                ELSE modulo
        IN  course_start_datetime + days_difference * DaySecs

RegistrationLeadMinutes == 7

get_registration_time(course_start_time) ==
    course_start_time - RegistrationLeadMinutes * MinuteSecs

JustStartedWindow == 2500

Abs(x) == IF x < 0 THEN -x ELSE x

\* Mutant of WithinJustStarted: only the 2500 s after the start count.
WithinJustStarted_afterStart(seconds) == seconds >= 0 /\ seconds <= JustStartedWindow

\* Mutant of WithinJustStarted: the edge of the window is left out.
WithinJustStarted_open(seconds) == Abs(seconds) < JustStartedWindow

\* abs(delta.total_seconds()) <= 2500
WithinJustStarted(seconds) == Abs(seconds) <= JustStartedWindow

course_has_just_started(course_number, current_time) ==
    IF course_number \notin DOMAIN course_day_time_mapping THEN FALSE
    ELSE
        LET course_info == course_day_time_mapping[course_number]
            course_day_index == course_info.day_index
            start_time == Strptime(course_info.start_time)
            course_start_datetime ==
                ReplaceTime(current_time, start_time.hour, start_time.minute)
            days_difference == (course_day_index - Weekday(current_time)) % WeekDays
        IN  WithinJustStarted(
                current_time - (course_start_datetime + days_difference * DaySecs))

----------------------------------------------------------------------------
(* The instants the model takes for datetime.now() *)

\* Weeks of wall-clock time the model covers.
NumWeeks == 1

\* Start of course c in week k, from the table alone.
SlotInstant(c, k) ==
    LET ci == course_day_time_mapping[c]
        st == Strptime(ci.start_time)
    IN  k * WeekSecs + ci.day_index * DaySecs
          + st.hour * HourSecs + st.minute * MinuteSecs

\* Offsets around a course start: the edges of the 2500 s window, the
\* registration time 7 minutes before, 41 minutes after, and the start itself.
SlotOffsets == {-2501, -2500, -421, -420, -419, -1, 0, 1, 2460, 2500, 2501}

\* Times of day taken on every day: midnight, the daily update at 00:05, noon,
\* the last second of the day.
DayOffsets == {0, 300, 43200, 86399}

NowSamples ==
    { SlotInstant(c, k) + o : c \in CourseNumbers, k \in 0..(NumWeeks - 1), o \in SlotOffsets }
    \cup { d * DaySecs + o : d \in 0..(NumWeeks * WeekDays - 1), o \in DayOffsets }

----------------------------------------------------------------------------
(* Credentials record: three lines (email, password, course line) *)

RECURSIVE ReadLinesFrom(_, _)
\* file.readlines(): the lines with their "\n" kept; the last may have none.
ReadLinesFrom(s, cur) ==
    IF s = <<>> THEN (IF cur = <<>> THEN <<>> ELSE <<cur>>)
    ELSE IF Head(s) = NL THEN <<Append(cur, NL)>> \o ReadLinesFrom(Tail(s), <<>>)
    ELSE ReadLinesFrom(Tail(s), Append(cur, Head(s)))

ReadLines(content) == ReadLinesFrom(content, <<>>)

RECURSIVE WriteLines(_)
\* file.writelines(lines): the lines one after the other, nothing added.
WriteLines(lines) ==
    IF lines = <<>> THEN <<>> ELSE Head(lines) \o WriteLines(Tail(lines))

\* Mutant of SortedDays: the ids in descending order.
SortedDays_descending(days) ==
    LET up == Sorted(days) IN [i \in 1..Len(up) |-> up[Len(up) + 1 - i]]

\* sorted(existing_days), sorted(excluded_days)
SortedDays(days) == Sorted(days)

\* sorted(all_days) + [f"!{day}" for day in sorted(excluded_days)], joined by
\* ", " and ended by "\n": the value given to lines[2].
CourseLine(all_days, excluded_days) ==
    LET reg == SortedDays(all_days)
        exc == SortedDays(excluded_days)
        all_days_combined == reg \o [i \in 1..Len(exc) |-> <<BANG>> \o exc[i]]
    IN  Join(all_days_combined, <<COMMA, SPACE>>) \o <<NL>>

\* The tokens of a course line: [day.strip() for day in line.split(",")]
DayTokens(line) ==
    LET parts == Split(line, COMMA) IN [i \in 1..Len(parts) |-> Strip(parts[i])]

\* How a write of the file can end: done, refused by open() with the file
\* untouched, or failed after open(path, 'w') has truncated the file.
WriteOutcomes == {"ok", "denied", "truncated"}

\* The file after open(path, 'w') and writelines(lines) ended in outcome w.
FileAfterWrite(old_content, lines, w) ==
    CASE w = "ok" -> WriteLines(lines)
      [] w = "denied" -> old_content
      [] w = "truncated" -> <<>>

\* Mutant of PrunedLines: the just-started courses stay in the third line.
PrunedLines_unchanged(lines, existing_days, excluded_days) == lines

\* lines[2] = ", ".join(all_days_combined) + "\n" in read_credentials_file
PrunedLines(lines, existing_days, excluded_days) ==
    [lines EXCEPT ![3] = CourseLine(existing_days, excluded_days)]

\* read_credentials_file on a file that exists, at current_time, when a write
\* it makes ends in outcome w.  exit: sys.exit(1) was called.  content: the
\* file afterwards.
read_credentials_file(content, current_time, w) ==
    LET lines0 == ReadLines(content)
    IN  IF Len(lines0) < 2
        THEN [exit |-> TRUE, email |-> <<>>, password |-> <<>>,
              existing_days |-> {}, excluded_days |-> {}, lines |-> lines0,
              content |-> content, removed |-> {}]
        ELSE
          LET email == Strip(lines0[1])
              password == Strip(lines0[2])
              has_days == Len(lines0) >= 3 /\ Strip(lines0[3]) # <<>>
              all_days == IF has_days THEN SeqToSet(DayTokens(lines0[3])) ELSE {}
              existing0 == {day \in all_days : ~StartsWithBang(day)}
              excluded_days == {Tail(day) : day \in {d \in all_days : StartsWithBang(d)}}
              lines1 == IF ~has_days /\ Len(lines0) < 3
                        THEN Append(lines0, <<NL>>) ELSE lines0
              courses_to_remove ==
                  {course \in existing0 : course_has_just_started(course, current_time)}
              existing_days == existing0 \ courses_to_remove
              lines2 == IF courses_to_remove # {}
                        THEN PrunedLines(lines1, existing_days, excluded_days)
                        ELSE lines1
          IN  [exit |-> courses_to_remove # {} /\ w # "ok",
               email |-> email, password |-> password,
               existing_days |-> existing_days, excluded_days |-> excluded_days,
               lines |-> lines2,
               content |-> IF courses_to_remove # {}
                           THEN FileAfterWrite(content, lines2, w)
                           ELSE content,
               removed |-> courses_to_remove]

\* Lines 377-380 of check_and_register_courses: the third line is rebuilt
\* from existing_days, the courses signed up in this run and excluded_days.
UpdatedLines(lines, existing_days, signed_up_days, excluded_days) ==
    [lines EXCEPT ![3] = CourseLine(existing_days \cup signed_up_days, excluded_days)]

----------------------------------------------------------------------------
(* State *)

VARIABLES
    \* calendar harness: the arguments and results of the pure functions
    cal_now, cal_course, cal_next, cal_started, cal_called,
    \* the credentials files: account index i (user{i}.txt) -> content
    files,
    \* record harness: the sets to save, the instant of the load, the lines
    \* held by the writer, the result of the load, and the position
    st_registered, st_excluded, st_now, st_lines, st_out, st_pc,
    \* check_and_register_courses: position, invocations started, and locals
    pc, runs, current_time, over_budget,
    email, password, existing_days, excluded_days, lines,
    driver, page, new_window_open, focus,
    available_days, idx, signed_up_days,
    \* what the invocation did: the clicks on booking buttons as
    \* <<coursenr, label of the row clicked>>, the log as <<coursenr, event>>,
    \* how the final write ended, the registered ids the first load found in
    \* the file, and those of them no load so far has removed
    clicks, log, write_result, first_registered, held_registered,
    \* the process: the wall clock and the times it was advanced, the
    \* configured accounts, the threads, the jobs of the shared scheduler,
    \* the schedule last computed by
    \* schedule_course_registrations, whether run_schedulers ran at startup
    clock, ticks, accounts, threads, jobs, computed, booted,
    \* what the last call of check_scheduler_health returned ("none" before
    \* the first call) and the account count and the live scheduler threads
    \* it was called with
    health_out, health_in

calVars == <<cal_now, cal_course, cal_next, cal_started, cal_called>>
stVars == <<st_registered, st_excluded, st_now, st_lines, st_out, st_pc>>

wfVars == <<pc, runs, current_time, over_budget,
            email, password, existing_days, excluded_days, lines,
            driver, page, new_window_open, focus,
            available_days, idx, signed_up_days,
            clicks, log, write_result, first_registered, held_registered>>

svVars == <<clock, ticks, accounts, threads, jobs, computed, booted>>
hcVars == <<health_out, health_in>>

vars == <<calVars, files, stVars, wfVars, svVars, hcVars>>

----------------------------------------------------------------------------
(* Calendar harness: the pure functions applied to every sampled input *)

CalInit ==
    /\ cal_now \in NowSamples
    /\ cal_course \in CourseNumbers \cup {C_Unknown}
    /\ cal_next = None
    /\ cal_started = FALSE
    /\ cal_called = {}

CalIdle ==
    /\ cal_now = 0
    /\ cal_course = C_Unknown
    /\ cal_next = None
    /\ cal_started = FALSE
    /\ cal_called = {}

\* What the calendar harness leaves alone.
CalFrame == UNCHANGED <<files, stVars, wfVars, svVars, hcVars>>

CallCalculateNext ==
    /\ "next" \notin cal_called
    /\ cal_next' = calculate_next_course_time(cal_course, cal_now)
    /\ cal_called' = cal_called \cup {"next"}
    /\ UNCHANGED <<cal_now, cal_course, cal_started>>
    /\ CalFrame

CallHasJustStarted ==
    /\ "started" \notin cal_called
    /\ cal_started' = course_has_just_started(cal_course, cal_now)
    /\ cal_called' = cal_called \cup {"started"}
    /\ UNCHANGED <<cal_now, cal_course, cal_next>>
    /\ CalFrame

CalNext ==
    \/ CallCalculateNext
    \/ CallHasJustStarted

----------------------------------------------------------------------------
(* Record harness: a record is saved as check_and_register_courses saves   *)
(* it and loaded back by read_credentials_file                             *)

\* Most ids a record of the harness holds (registered and excluded together).
MaxDays == 3

EMAIL == <<97, 64, 98>>
PASSWORD == <<112, 119>>

\* user{i}.txt as run_schedulers writes it for an account without courses.
FreshFile == EMAIL \o <<NL>> \o PASSWORD \o <<NL>> \o <<NL>>

\* Instants of the loads: for every course the edges of its window and 41
\* minutes after its start, and one instant far from every course.
StoreNowSamples ==
    { SlotInstant(c, k) + o : c \in CourseNumbers, k \in 0..(NumWeeks - 1),
                              o \in {-2501, -2500, 2460, 2500, 2501} }
    \cup {0}

NoOutcome == [exit |-> FALSE, email |-> <<>>, password |-> <<>>,
              existing_days |-> {}, excluded_days |-> {}, lines |-> <<>>,
              content |-> <<>>, removed |-> {}]

StoreInit ==
    /\ st_registered \in SUBSET (CourseNumbers \cup {C_Unknown})
    /\ st_excluded \in SUBSET (CourseNumbers \cup {C_Unknown})
    /\ st_registered \cap st_excluded = {}
    /\ Cardinality(st_registered \cup st_excluded) <= MaxDays
    /\ st_now \in StoreNowSamples
    /\ st_lines = ReadLines(FreshFile)
    /\ st_out = NoOutcome
    /\ st_pc = "init"

StoreIdle ==
    /\ st_registered = {}
    /\ st_excluded = {}
    /\ st_now = 0
    /\ st_lines = <<>>
    /\ st_out = NoOutcome
    /\ st_pc = "idle"

\* What the record harness leaves alone.
StoreFrame == UNCHANGED <<calVars, wfVars, svVars, hcVars>>

\* Lines 377-387: the third line is rebuilt and the file written.
StoreSave(w) ==
    /\ st_pc = "init"
    /\ files' = [files EXCEPT ![0] =
            FileAfterWrite(files[0],
                UpdatedLines(st_lines, st_registered, {}, st_excluded), w)]
    /\ st_pc' = IF w = "ok" THEN "saved" ELSE "save_failed"
    /\ UNCHANGED <<st_registered, st_excluded, st_now, st_lines, st_out>>
    /\ StoreFrame

\* read_credentials_file(credentials_file, logger, current_time)
StoreLoad(w) ==
    /\ st_pc \in {"saved", "save_failed"}
    /\ LET r == read_credentials_file(files[0], st_now, w)
       IN  /\ st_out' = r
           /\ files' = [files EXCEPT ![0] = r.content]
    /\ st_pc' = IF st_pc = "saved" THEN "loaded" ELSE "loaded_after_failure"
    /\ UNCHANGED <<st_registered, st_excluded, st_now, st_lines>>
    /\ StoreFrame

StoreNext ==
    \/ \E w \in WriteOutcomes : StoreSave(w)
    \/ \E w \in WriteOutcomes : StoreLoad(w)

----------------------------------------------------------------------------
(* check_and_register_courses: one invocation after the other on user0.txt *)

\* Invocations started in one behaviour.
MaxRuns == 2

\* Most rows with a booking button on the page.
MaxRows == 2

\* Row labels the page can show, in the order of the page.
PageOrder == <<C_051001, C_051002, C_Unknown>>

\* The pages: rows in page order, each with its label readable or not (the
\* lookup of the row's bs_sknr cell can raise).
Pages ==
    { p \in UNION { [1..n -> [nr : SeqToSet(PageOrder), readable : BOOLEAN]] : n \in 0..MaxRows } :
        \A i \in 1..Len(p), j \in 1..Len(p) :
            i < j => \E a \in 1..Len(PageOrder), b \in 1..Len(PageOrder) :
                        a < b /\ PageOrder[a] = p[i].nr /\ PageOrder[b] = p[j].nr }

\* Instants of the invocations: far from every course, 7 minutes before the
\* start of 051001 (its registration time), and 10 minutes after that start.
WfNowSamples == {0, SlotInstant(C_051001, 0) - 420, SlotInstant(C_051001, 0) + 600}

\* The records user0.txt starts with: at most one id, registered or excluded.
WfInitialFiles ==
    { WriteLines(UpdatedLines(ReadLines(FreshFile), reg, {}, exc)) :
        <<reg, exc>> \in { <<r, e>> \in (SUBSET SeqToSet(PageOrder)) \X (SUBSET SeqToSet(PageOrder)) :
                              r \cap e = {} /\ Cardinality(r \cup e) <= 1 } }

WfIdle ==
    /\ pc = "idle" /\ runs = 0 /\ current_time = 0 /\ over_budget = FALSE
    /\ email = <<>> /\ password = <<>>
    /\ existing_days = {} /\ excluded_days = {} /\ lines = <<>>
    /\ driver = "none" /\ page = <<>> /\ new_window_open = FALSE
    /\ focus = "original"
    /\ available_days = <<>> /\ idx = 0 /\ signed_up_days = {}
    /\ clicks = {} /\ log = <<>> /\ write_result = "none"
    /\ first_registered = {} /\ held_registered = {}

WfFrame == UNCHANGED <<calVars, stVars, svVars, hcVars>>

Logged(coursenr, event) == log' = Append(log, <<coursenr, event>>)

\* The course of a log entry that names none ("Script timed out").
NoCourse == <<>>

\* Lines 204-215: the clock is read and the record loaded; a missing or
\* short file, or a failed write of the pruned record, ends the process.
WfStart(now, w) ==
    /\ pc = "idle"
    /\ runs < MaxRuns
    /\ runs' = runs + 1
    /\ current_time' = now
    /\ IF 0 \notin DOMAIN files
       THEN /\ pc' = "exited"
            /\ UNCHANGED <<files, email, password, existing_days, excluded_days,
                           lines, first_registered, held_registered>>
       ELSE LET r == read_credentials_file(files[0], now, w)
            IN  /\ files' = [files EXCEPT ![0] = r.content]
                /\ pc' = IF r.exit THEN "exited" ELSE "setup_driver"
                /\ email' = r.email /\ password' = r.password
                /\ existing_days' = r.existing_days
                /\ excluded_days' = r.excluded_days
                /\ lines' = r.lines
                /\ first_registered' = IF runs = 0
                                       THEN r.existing_days \cup r.removed
                                       ELSE first_registered
                /\ held_registered' = IF runs = 0 THEN r.existing_days
                                      ELSE held_registered \ r.removed
    /\ UNCHANGED <<over_budget, driver, page, new_window_open, focus,
                   available_days, idx, signed_up_days, clicks, log, write_result>>
    /\ WfFrame

\* The invocation returns to its caller: its locals and its driver are gone.
Return ==
    /\ pc = "done"
    /\ pc' = "idle"
    /\ current_time' = 0 /\ over_budget' = FALSE
    /\ email' = <<>> /\ password' = <<>>
    /\ existing_days' = {} /\ excluded_days' = {} /\ lines' = <<>>
    /\ driver' = "none" /\ page' = <<>> /\ new_window_open' = FALSE
    /\ focus' = "original"
    /\ available_days' = <<>> /\ idx' = 0 /\ signed_up_days' = {}
    /\ clicks' = {} /\ log' = <<>> /\ write_result' = "none"
    /\ UNCHANGED <<files, runs, first_registered, held_registered>>
    /\ WfFrame

\* time.time() - start_time grows past max_runtime (900 s) while the
\* invocation waits on the browser.
TimePasses ==
    /\ pc \notin {"idle", "done", "exited"}
    /\ ~over_budget
    /\ over_budget' = TRUE
    /\ UNCHANGED <<files, pc, runs, current_time, email, password, existing_days,
                   excluded_days, lines, driver, page, new_window_open, focus,
                   available_days, idx, signed_up_days, clicks, log,
                   write_result, first_registered, held_registered>>
    /\ WfFrame

\* Lines 217-219 and 394-395: setup_webdriver returns a driver or raises
\* after its three attempts.
SetupWebdriver(ok) ==
    /\ pc = "setup_driver"
    /\ driver' = IF ok THEN "up" ELSE "none"
    /\ pc' = IF ok THEN "navigate" ELSE "finally"
    /\ UNCHANGED <<files, runs, current_time, over_budget, email, password,
                   existing_days, excluded_days, lines, page, new_window_open,
                   focus, available_days, idx, signed_up_days, clicks, log,
                   write_result, first_registered, held_registered>>
    /\ WfFrame

\* Lines 228-231: driver.get(booking_url) shows page p or raises.
Navigate(ok, p) ==
    /\ pc = "navigate"
    /\ page' = IF ok THEN p ELSE <<>>
    /\ pc' = IF ok THEN "discover" ELSE "finally"
    /\ UNCHANGED <<files, runs, current_time, over_budget, email, password,
                   existing_days, excluded_days, lines, driver, new_window_open,
                   focus, available_days, idx, signed_up_days, clicks, log,
                   write_result, first_registered, held_registered>>
    /\ WfFrame

RECURSIVE ReadableLabels(_)
\* Lines 245-255: the labels of the rows whose label could be read, in order.
ReadableLabels(rows) ==
    IF rows = <<>> THEN <<>>
    ELSE (IF Head(rows).readable THEN <<Head(rows).nr>> ELSE <<>>)
            \o ReadableLabels(Tail(rows))

\* Lines 237-258: check_timeout, then the rows with a booking button are
\* listed and their labels collected.
Discover ==
    /\ pc = "discover"
    /\ IF over_budget
       THEN /\ pc' = "finally"
            /\ UNCHANGED <<available_days, signed_up_days>>
       ELSE /\ pc' = "loop"
            /\ available_days' = ReadableLabels(page)
            /\ signed_up_days' = {}
    /\ UNCHANGED <<files, runs, current_time, over_budget, email, password,
                   existing_days, excluded_days, lines, driver, page,
                   new_window_open, focus, idx, clicks, log, write_result,
                   first_registered, held_registered>>
    /\ WfFrame

\* Mutant of AlreadyInConfiguration: a registered course is attempted again.
AlreadyInConfiguration_never(coursenr, existing) == FALSE

\* Line 268: if coursenr in existing_days
AlreadyInConfiguration(coursenr, existing) == coursenr \in existing

\* Lines 260-270: the head of the loop over available_days: check_timeout
\* (a TimeoutError here leaves the loop and skips the write), then the Filter.
LoopHead ==
    /\ pc = "loop"
    /\ IF idx >= Len(available_days)
       THEN /\ pc' = "write"
            /\ UNCHANGED <<idx, log>>
       ELSE LET coursenr == available_days[idx + 1]
            IN  IF over_budget
                THEN /\ pc' = "finally"
                     /\ Logged(NoCourse, "timed_out")
                     /\ UNCHANGED idx
                ELSE IF coursenr \in excluded_days
                THEN /\ pc' = "loop"
                     /\ idx' = idx + 1
                     /\ Logged(coursenr, "skip_excluded")
                ELSE IF AlreadyInConfiguration(coursenr, existing_days)
                THEN /\ pc' = "loop"
                     /\ idx' = idx + 1
                     /\ Logged(coursenr, "skip_existing")
                ELSE /\ pc' = "click"
                     /\ UNCHANGED <<idx, log>>
    /\ UNCHANGED <<files, runs, current_time, over_budget, email, password,
                   existing_days, excluded_days, lines, driver, page,
                   new_window_open, focus, available_days, signed_up_days,
                   clicks, write_result, first_registered, held_registered>>
    /\ WfFrame

\* Mutant of CleanupFocus, CleanupWindow: the finally block closes nothing.
CleanupWindow_leak(open, current) == open

\* Lines 371-375: if the current window is not the original one it is
\* closed and the original one is given the focus.
CleanupWindow(open, current) == IF current # "original" THEN FALSE ELSE open
CleanupFocus(current) == "original"

\* Mutant of AfterCourseError: a failed step ends the whole invocation.
AfterCourseError_abort(event) == "finally"

\* Lines 294-296, 306-310 and 365-369: a failed step is logged and the loop
\* goes on with the next course.
AfterCourseError(event) == "loop"

\* The rows without row i (all of them when there is no row i).
WithoutRow(rows, i) ==
    IF i \in 1..Len(rows)
    THEN SubSeq(rows, 1, i - 1) \o SubSeq(rows, i + 1, Len(rows))
    ELSE rows

\* Lines 272-296 and 368-375: the buttons are listed again (the site may
\* have taken row `lost` off the page since) and the one at position idx is
\* clicked; r is what the click brings: a new window, none, or an exception.
ClickCourse(r, lost) ==
    /\ pc = "click"
    /\ LET coursenr == available_days[idx + 1]
           updated_courses == WithoutRow(page, lost)
       IN  IF idx >= Len(updated_courses)
           THEN /\ Logged(coursenr, "index_out_of_bounds")
                /\ pc' = "loop" /\ idx' = idx + 1
                /\ new_window_open' = CleanupWindow(new_window_open, focus)
                /\ focus' = CleanupFocus(focus)
                /\ UNCHANGED clicks
           ELSE /\ clicks' = clicks \cup {<<coursenr, updated_courses[idx + 1].nr>>}
                /\ CASE r = "window" ->
                           /\ new_window_open' = TRUE
                           /\ focus' = "new"
                           /\ pc' = "booking"
                           /\ UNCHANGED <<idx, log>>
                     [] r = "no_window" ->
                           /\ Logged(coursenr, "no_new_window")
                           /\ pc' = AfterCourseError("no_new_window") /\ idx' = idx + 1
                           /\ new_window_open' = CleanupWindow(new_window_open, focus)
                           /\ focus' = CleanupFocus(focus)
                     [] r = "exception" ->
                           /\ Logged(coursenr, "error_processing")
                           /\ pc' = AfterCourseError("error_processing") /\ idx' = idx + 1
                           /\ new_window_open' = CleanupWindow(new_window_open, focus)
                           /\ focus' = CleanupFocus(focus)
    /\ UNCHANGED <<files, runs, current_time, over_budget, email, password,
                   existing_days, excluded_days, lines, driver, page,
                   available_days, signed_up_days, write_result, first_registered, held_registered>>
    /\ WfFrame

\* Lines 298-310: the "buchen" button is waited for and clicked; when it is
\* missing the new window is closed and the original one gets the focus.
BookingButton(found) ==
    /\ pc = "booking"
    /\ IF found
       THEN /\ pc' = "login"
            /\ UNCHANGED <<idx, log, new_window_open, focus>>
       ELSE /\ Logged(available_days[idx + 1], "no_booking")
            /\ pc' = AfterCourseError("no_booking") /\ idx' = idx + 1
            /\ new_window_open' = CleanupWindow(FALSE, "original")
            /\ focus' = CleanupFocus("original")
    /\ UNCHANGED <<files, runs, current_time, over_budget, email, password,
                   existing_days, excluded_days, lines, driver, page,
                   available_days, signed_up_days, clicks, write_result,
                   first_registered, held_registered>>
    /\ WfFrame

\* Lines 312-333 and 368-375: the login form is opened, filled and sent,
\* then check_timeout; an exception of a step, and the TimeoutError too, is
\* caught by the except of the course and ends this course only.
Login(ok) ==
    /\ pc = "login"
    /\ IF ok /\ ~over_budget
       THEN /\ pc' = "confirm"
            /\ UNCHANGED <<idx, log, new_window_open, focus>>
       ELSE /\ Logged(available_days[idx + 1],
                      IF ok THEN "timed_out_in_attempt" ELSE "error_processing")
            /\ pc' = AfterCourseError("error_processing") /\ idx' = idx + 1
            /\ new_window_open' = CleanupWindow(new_window_open, focus)
            /\ focus' = CleanupFocus(focus)
    /\ UNCHANGED <<files, runs, current_time, over_budget, email, password,
                   existing_days, excluded_days, lines, driver, page,
                   available_days, signed_up_days, clicks, write_result,
                   first_registered, held_registered>>
    /\ WfFrame

\* What the page shows after the final confirmation, or an exception of a step.
ConfirmResults == {"success", "already", "unknown", "exception"}

\* Mutant of SignedUpAfter: only a confirmation page counts.
SignedUpAfter_successOnly(signed, coursenr, r) ==
    IF r = "success" THEN signed \cup {coursenr} ELSE signed

\* Lines 353-363: signed_up_days.add(coursenr) on the confirmation title
\* and on the "could not be carried out" text.
SignedUpAfter(signed, coursenr, r) ==
    IF r \in {"success", "already"} THEN signed \cup {coursenr} ELSE signed

\* Lines 335-375: terms, submit, confirm, then the result page is read.
Confirm(r) ==
    /\ pc = "confirm"
    /\ LET coursenr == available_days[idx + 1]
       IN  /\ signed_up_days' = SignedUpAfter(signed_up_days, coursenr, r)
           /\ Logged(coursenr,
                CASE r = "success" -> "success"
                  [] r = "already" -> "already_registered"
                  [] r = "unknown" -> "unknown_status"
                  [] r = "exception" -> "error_registration")
    /\ pc' = (IF r \in {"unknown", "exception"}
              THEN AfterCourseError("error_registration") ELSE "loop")
    /\ idx' = idx + 1
    /\ new_window_open' = CleanupWindow(new_window_open, focus)
    /\ focus' = CleanupFocus(focus)
    /\ UNCHANGED <<files, runs, current_time, over_budget, email, password,
                   existing_days, excluded_days, lines, driver, page,
                   available_days, clicks, write_result, first_registered, held_registered>>
    /\ WfFrame

\* Lines 377-387: the third line is rebuilt and the file written; a failure
\* of the write is logged.
WriteRecord(w) ==
    /\ pc = "write"
    /\ lines' = UpdatedLines(lines, existing_days, signed_up_days, excluded_days)
    /\ files' = [files EXCEPT ![0] = FileAfterWrite(files[0], lines', w)]
    /\ write_result' = w
    /\ pc' = "finally"
    /\ UNCHANGED <<runs, current_time, over_budget, email, password,
                   existing_days, excluded_days, driver, page, new_window_open,
                   focus, available_days, idx, signed_up_days, clicks, log,
                   first_registered, held_registered>>
    /\ WfFrame

\* Mutant of DriverAfterCleanup: the driver is left running.
DriverAfterCleanup_leak(d) == d

\* Lines 398-399: if 'driver' in locals(): driver.quit()
DriverAfterCleanup(d) == IF d = "up" THEN "quit" ELSE d

\* Lines 396-401: driver.quit() if a driver was made; the invocation returns.
Finally ==
    /\ pc = "finally"
    /\ driver' = DriverAfterCleanup(driver)
    /\ new_window_open' = IF driver = "up" THEN FALSE ELSE new_window_open
    /\ pc' = "done"
    /\ UNCHANGED <<files, runs, current_time, over_budget, email, password,
                   existing_days, excluded_days, lines, page, focus,
                   available_days, idx, signed_up_days, clicks, log,
                   write_result, first_registered, held_registered>>
    /\ WfFrame

WfNext ==
    \/ \E now \in WfNowSamples, w \in WriteOutcomes : WfStart(now, w)
    \/ TimePasses
    \/ \E ok \in BOOLEAN : SetupWebdriver(ok)
    \/ \E ok \in BOOLEAN, p \in Pages : Navigate(ok, p)
    \/ Discover
    \/ LoopHead
    \/ \E r \in {"window", "no_window", "exception"}, lost \in 0..MaxRows :
            ClickCourse(r, lost)
    \/ \E found \in BOOLEAN : BookingButton(found)
    \/ \E ok \in BOOLEAN : Login(ok)
    \/ \E r \in ConfirmResults : Confirm(r)
    \/ \E w \in WriteOutcomes : WriteRecord(w)
    \/ Finally
    \/ Return

----------------------------------------------------------------------------
(* The jobs of the schedule module's default scheduler, which every thread  *)
(* of the process shares, the scheduler run_registration_scheduler and the  *)
(* threads that run it                                                      *)

\* Threads started in one behaviour, and accounts in the configuration.
MaxThreads == 3
MaxAccounts == 2

\* Times the clock is advanced to the next due job in one behaviour.
MaxTicks == 2

\* "00:05", the time of the daily update of the schedule.
T_0005 == <<48, 48, 58, 48, 53>>

\* registration_time.strftime("%H:%M")
StrftimeHM(t) ==
    LET h == TimeOfDay(t) \div HourSecs
        mi == (TimeOfDay(t) % HourSecs) \div MinuteSecs
    IN  <<48 + (h \div 10), 48 + (h % 10), 58, 48 + (mi \div 10), 48 + (mi % 10)>>

\* Job.at("HH:MM"): the time of day, in seconds, the job runs at.
AtTime(s) ==
    LET p == Strptime(s) IN p.hour * HourSecs + p.minute * MinuteSecs

\* The next run of an every().day.at(...) job planned at t: today when the
\* time of day is still ahead, otherwise tomorrow.
NextRun(t, at) ==
    IF at > TimeOfDay(t) THEN DateOf(t) * DaySecs + at
    ELSE (DateOf(t) + 1) * DaySecs + at

\* Mutant of RegistrationTimePassed: a deadline that is exactly now is kept.
RegistrationTimePassed_strict(registration_time, t) == registration_time < t

\* registration_time <= current_time
RegistrationTimePassed(registration_time, t) == registration_time <= t

CourseJob(course_number, path, registration_time, t) ==
    [kind |-> "course", tag |-> course_number, path |-> path,
     at |-> AtTime(StrftimeHM(registration_time)),
     next_run |-> NextRun(t, AtTime(StrftimeHM(registration_time)))]

UpdateJob(path, t) ==
    [kind |-> "update", tag |-> <<>>, path |-> path,
     at |-> AtTime(T_0005), next_run |-> NextRun(t, AtTime(T_0005))]

RECURSIVE CourseJobsFrom(_, _, _)
\* Lines 411-435: the loop over the course table from its i-th key on.
CourseJobsFrom(i, path, t) ==
    IF i > Len(CourseOrder) THEN <<>>
    ELSE LET course_number == CourseOrder[i]
             next_course_time == calculate_next_course_time(course_number, t)
             registration_time == get_registration_time(next_course_time)
         IN  IF next_course_time = None
                \/ RegistrationTimePassed(registration_time, t)
             THEN CourseJobsFrom(i + 1, path, t)
             ELSE <<CourseJob(course_number, path, registration_time, t)>>
                    \o CourseJobsFrom(i + 1, path, t)

\* Job.should_run
ShouldRun(j, t) == t >= j.next_run

RECURSIVE InsertByNextRun(_, _)
InsertByNextRun(j, sorted_jobs) ==
    IF sorted_jobs = <<>> THEN <<j>>
    ELSE IF j.next_run < Head(sorted_jobs).next_run THEN <<j>> \o sorted_jobs
    ELSE <<Head(sorted_jobs)>> \o InsertByNextRun(j, Tail(sorted_jobs))

RECURSIVE SortedByNextRun(_)
\* sorted(jobs): by next_run, jobs of equal next_run in their order.
SortedByNextRun(job_list) ==
    IF job_list = <<>> THEN <<>>
    ELSE InsertByNextRun(job_list[Len(job_list)],
                         SortedByNextRun(SubSeq(job_list, 1, Len(job_list) - 1)))

\* The jobs run_pending runs at t.
Runnable(job_list, t) ==
    SortedByNextRun(SelectSeq(job_list, LAMBDA j : ShouldRun(j, t)))

\* Job.run after job_func returned: the job plans its next run; it may no
\* longer be in the list.  (The clock stands still while a job runs, so a
\* job is told from the others by its fields.)
Rescheduled(job_list, j, t) ==
    [i \in DOMAIN job_list |->
        IF job_list[i] = j
        THEN [job_list[i] EXCEPT !.next_run = NextRun(t, j.at)]
        ELSE job_list[i]]

\* No schedule computed yet.
NoSchedule == [now |-> None, path |-> None, jobs |-> <<>>]

\* Row labels the site offers to the attempts of the threads.
OfferedCourses == {C_051001}

NoAttempt == [path |-> None, existing_days |-> {}, excluded_days |-> {}, lines |-> <<>>]

NewThread(kind, index, path, at_pc) ==
    [kind |-> kind, index |-> index, path |-> path, pc |-> at_pc,
     attempt |-> NoAttempt, pending |-> <<>>]

SvIdle ==
    /\ clock = 0 /\ accounts = <<>> /\ threads = <<>>
    /\ ticks = 0 /\ jobs = <<>>
    /\ computed = NoSchedule /\ booted = FALSE
    /\ health_out = "none" /\ health_in = <<>>

SvFrame == UNCHANGED <<calVars, stVars, wfVars, hcVars>>

Live(t) == t \in DOMAIN threads /\ threads[t].pc # "dead"

InFlight(t) ==
    t \in DOMAIN threads /\ threads[t].pc \in {"initial_run", "in_job", "in_test"}

\* Lines 204-215 in thread t: the record of path is loaded (and written back
\* when a course was pruned); sys.exit(1) ends the thread.
BeginAttempt(t, path, w, at_pc) ==
    IF path \notin DOMAIN files
    THEN /\ threads' = [threads EXCEPT ![t].pc = "dead", ![t].pending = <<>>]
         /\ UNCHANGED files
    ELSE LET r == read_credentials_file(files[path], clock, w)
         IN  /\ files' = [files EXCEPT ![path] = r.content]
             /\ threads' =
                  IF r.exit
                  THEN [threads EXCEPT ![t].pc = "dead", ![t].pending = <<>>]
                  ELSE [threads EXCEPT
                          ![t].pc = at_pc,
                          ![t].attempt = [path |-> path,
                                          existing_days |-> r.existing_days,
                                          excluded_days |-> r.excluded_days,
                                          lines |-> r.lines]]

\* Line 447: the scheduler's run at startup.
StartupRun(t, w) ==
    /\ t \in DOMAIN threads /\ threads[t].pc = "start"
    /\ BeginAttempt(t, threads[t].path, w, "initial_run")
    /\ UNCHANGED <<clock, ticks, accounts, jobs, computed, booted>>
    /\ SvFrame

\* Line 643: the thread of /run-test calls check_and_register_courses.
TestRun(t, w) ==
    /\ t \in DOMAIN threads /\ threads[t].pc = "test_start"
    /\ BeginAttempt(t, threads[t].path, w, "in_test")
    /\ UNCHANGED <<clock, ticks, accounts, jobs, computed, booted>>
    /\ SvFrame

\* Mutant of Attemptable: the excluded courses are attempted as well.
Attemptable_excludedToo(a) == OfferedCourses \ a.existing_days

\* Line 268: the rows attempted are those neither registered nor excluded.
Attemptable(a) == OfferedCourses \ (a.existing_days \cup a.excluded_days)

\* Lines 217-401 in thread t: the attempt ends.  It signed up for the
\* courses of signed and, unless it ended before line 377 (no driver, page
\* not loaded, time budget exceeded), wrote the record with outcome w.
EndAttempt(t, signed, written, w) ==
    /\ InFlight(t)
    /\ LET a == threads[t].attempt
           rest == Tail(threads[t].pending)
       IN  /\ signed \subseteq Attemptable(a)
           /\ ~written => (signed = {} /\ w = "ok")
           /\ files' =
                IF written
                THEN (a.path :> FileAfterWrite(
                                  IF a.path \in DOMAIN files THEN files[a.path] ELSE <<>>,
                                  UpdatedLines(a.lines, a.existing_days, signed,
                                               a.excluded_days), w)) @@ files
                ELSE files
           /\ CASE threads[t].pc = "initial_run" ->
                     /\ threads' = [threads EXCEPT ![t].pc = "schedule",
                                                   ![t].attempt = NoAttempt]
                     /\ UNCHANGED jobs
                [] threads[t].pc = "in_test" ->
                     /\ threads' = [threads EXCEPT ![t].pc = "dead",
                                                   ![t].attempt = NoAttempt]
                     /\ UNCHANGED jobs
                [] threads[t].pc = "in_job" ->
                     /\ threads' = [threads EXCEPT
                                      ![t].pc = IF rest = <<>> THEN "loop" ELSE "run_job",
                                      ![t].attempt = NoAttempt,
                                      ![t].pending = rest]
                     /\ jobs' = Rescheduled(jobs, Head(threads[t].pending), clock)
    /\ UNCHANGED <<clock, ticks, accounts, computed, booted>>
    /\ SvFrame

\* Lines 403-435: schedule.clear() and one job per course whose
\* registration time is still ahead.
schedule_course_registrations(path) ==
    LET new_jobs == CourseJobsFrom(1, path, clock)
    IN  /\ jobs' = new_jobs
        /\ computed' = [now |-> clock, path |-> path, jobs |-> new_jobs]

\* Line 450.
ScheduleAtStartup(t) ==
    /\ t \in DOMAIN threads /\ threads[t].pc = "schedule"
    /\ schedule_course_registrations(threads[t].path)
    /\ threads' = [threads EXCEPT ![t].pc = "add_update"]
    /\ UNCHANGED <<clock, ticks, accounts, files, booted>>
    /\ SvFrame

\* Line 458.
AddUpdateJob(t) ==
    /\ t \in DOMAIN threads /\ threads[t].pc = "add_update"
    /\ jobs' = Append(jobs, UpdateJob(threads[t].path, clock))
    /\ threads' = [threads EXCEPT ![t].pc = "loop"]
    /\ UNCHANGED <<clock, ticks, accounts, files, computed, booted>>
    /\ SvFrame

\* Line 463: run_pending collects the jobs that are due.
RunPending(t) ==
    /\ t \in DOMAIN threads /\ threads[t].pc = "loop"
    /\ Runnable(jobs, clock) # <<>>
    /\ threads' = [threads EXCEPT ![t].pc = "run_job",
                                  ![t].pending = Runnable(jobs, clock)]
    /\ UNCHANGED <<clock, ticks, accounts, files, jobs, computed, booted>>
    /\ SvFrame

\* run_pending runs a due course job: check_and_register_courses on the
\* file the job was created with.
RunCourseJob(t, w) ==
    /\ t \in DOMAIN threads /\ threads[t].pc = "run_job"
    /\ Head(threads[t].pending).kind = "course"
    /\ BeginAttempt(t, Head(threads[t].pending).path, w, "in_job")
    /\ UNCHANGED <<clock, ticks, accounts, jobs, computed, booted>>
    /\ SvFrame

\* run_pending runs the due update job (lines 453-455); the job then plans
\* its next run, but clear() has taken it off the list.
RunUpdateJob(t) ==
    /\ t \in DOMAIN threads /\ threads[t].pc = "run_job"
    /\ Head(threads[t].pending).kind = "update"
    /\ schedule_course_registrations(Head(threads[t].pending).path)
    /\ LET rest == Tail(threads[t].pending)
       IN  threads' = [threads EXCEPT
                         ![t].pc = IF rest = <<>> THEN "loop" ELSE "run_job",
                         ![t].pending = rest]
    /\ UNCHANGED <<clock, ticks, accounts, files, booted>>
    /\ SvFrame

\* Line 464: the loops sleep until the next job is due.
Tick ==
    /\ \E t \in DOMAIN threads : threads[t].pc = "loop"
    /\ \A t \in DOMAIN threads : threads[t].pc \in {"loop", "dead"}
    /\ jobs # <<>>
    /\ Runnable(jobs, clock) = <<>>
    /\ LET due == {jobs[i].next_run : i \in DOMAIN jobs}
           next_due == CHOOSE d \in due : \A e \in due : d <= e
       IN  clock' = next_due
    /\ ticks < MaxTicks
    /\ ticks' = ticks + 1
    /\ UNCHANGED <<accounts, threads, files, jobs, computed, booted>>
    /\ SvFrame

----------------------------------------------------------------------------
(* The supervisor: the account configuration, run_schedulers and the web    *)
(* handlers that start threads                                              *)

\* ','.join(['!' + c for c in excluded_courses])
ExcludedCourses(excluded_courses) ==
    Join([i \in 1..Len(excluded_courses) |-> <<BANG>> \o excluded_courses[i]], <<COMMA>>)

Account(excluded_courses) ==
    [email |-> EMAIL, password |-> PASSWORD, courses |-> ExcludedCourses(excluded_courses)]

\* The values of the form field excluded_courses.
FormExcluded == {<<C_051002>>}

\* Lines 500-503: user{i}.txt as written for an account.
CredentialFile(account) ==
    account.email \o <<NL>> \o account.password \o <<NL>> \o account.courses \o <<NL>>

\* Lines 486-513: every account's file is written anew and a thread
\* scheduler_{i} started for it.
run_schedulers(account_list) ==
    /\ files' = [i \in 0..(Len(account_list) - 1) |-> CredentialFile(account_list[i + 1])]
                   @@ files
    /\ threads' = threads \o
          [i \in 1..Len(account_list) |-> NewThread("scheduler", i - 1, i - 1, "start")]

\* Lines 995-997: the thread started at the start of the process.
BootWithin(max_threads) ==
    /\ ~booted
    /\ booted' = TRUE
    /\ Len(threads) + Len(accounts) <= max_threads
    /\ run_schedulers(accounts)
    /\ UNCHANGED <<clock, ticks, accounts, jobs, computed>>
    /\ SvFrame

Boot == BootWithin(MaxThreads)

\* Lines 679-722: the accounts are stored and, when that succeeded, the
\* schedulers are started again for all of them; the threads that run
\* already are only counted.
save_accounts(account_list, saved, max_threads) ==
    IF saved
    THEN /\ accounts' = account_list
         /\ Len(threads) + Len(account_list) <= max_threads
         /\ run_schedulers(account_list)
    ELSE UNCHANGED <<accounts, files, threads>>

\* POST /accounts (lines 543-579): account_idx is a position or None for a
\* new account.
ManageAccountsWithin(account_idx, excluded_courses, saved, max_accounts, max_threads) ==
    /\ LET account_list ==
             IF account_idx # None
             THEN IF account_idx < Len(accounts)
                  THEN [accounts EXCEPT ![account_idx + 1] = Account(excluded_courses)]
                  ELSE accounts
             ELSE Append(accounts, Account(excluded_courses))
       IN  /\ Len(account_list) <= max_accounts
           /\ save_accounts(account_list, saved, max_threads)
    /\ UNCHANGED <<clock, ticks, jobs, computed, booted>>
    /\ SvFrame

ManageAccounts(account_idx, excluded_courses, saved) ==
    ManageAccountsWithin(account_idx, excluded_courses, saved, MaxAccounts, MaxThreads)

\* POST /accounts/delete/<idx> (lines 588-604).
DeleteAccountWithin(account_idx, saved, max_threads) ==
    /\ account_idx < Len(accounts)
    /\ save_accounts([i \in 1..(Len(accounts) - 1) |->
                         IF i <= account_idx THEN accounts[i] ELSE accounts[i + 1]],
                     saved, max_threads)
    /\ UNCHANGED <<clock, ticks, jobs, computed, booted>>
    /\ SvFrame

DeleteAccount(account_idx, saved) == DeleteAccountWithin(account_idx, saved, MaxThreads)

\* GET /run-test (lines 630-653): a thread test_thread for user0.txt.
RunTestWithin(max_threads) ==
    /\ accounts # <<>>
    /\ Len(threads) < max_threads
    /\ threads' = Append(threads, NewThread("test", 0, 0, "test_start"))
    /\ UNCHANGED <<clock, ticks, accounts, files, jobs, computed, booted>>
    /\ SvFrame

RunTest == RunTestWithin(MaxThreads)

\* Lines 729-730: the threads threading.enumerate() lists whose name starts
\* with "scheduler_".
SchedulerThreads(thread_list) ==
    {t \in DOMAIN thread_list :
        thread_list[t].kind = "scheduler" /\ thread_list[t].pc # "dead"}

\* Mutant of TooFewSchedulers: as many threads as accounts count as too few.
TooFewSchedulers_orEqual(scheduler_count, account_count) == scheduler_count <= account_count

\* len(scheduler_threads) < len(accounts)
TooFewSchedulers(scheduler_count, account_count) == scheduler_count < account_count

\* Lines 724-737.
check_scheduler_health ==
    IF TooFewSchedulers(Cardinality(SchedulerThreads(threads)), Len(accounts))
    THEN FALSE
    ELSE TRUE

\* A handler (dashboard, status page) calls check_scheduler_health.
HealthCheck ==
    /\ health_out' = IF check_scheduler_health THEN "True" ELSE "False"
    /\ health_in' = <<Len(accounts), threads>>
    /\ UNCHANGED <<files, svVars>>
    /\ UNCHANGED <<calVars, stVars, wfVars>>

ThreadNext ==
    \/ \E t \in 1..MaxThreads, w \in WriteOutcomes : StartupRun(t, w)
    \/ \E t \in 1..MaxThreads, signed \in SUBSET OfferedCourses,
          written \in BOOLEAN, w \in WriteOutcomes : EndAttempt(t, signed, written, w)
    \/ \E t \in 1..MaxThreads : ScheduleAtStartup(t)
    \/ \E t \in 1..MaxThreads : AddUpdateJob(t)
    \/ \E t \in 1..MaxThreads : RunPending(t)
    \/ \E t \in 1..MaxThreads, w \in WriteOutcomes : RunCourseJob(t, w)
    \/ \E t \in 1..MaxThreads : RunUpdateJob(t)
    \/ Tick

SchedulerNext == ThreadNext

SupervisorNext ==
    \/ ThreadNext
    \/ \E t \in 1..MaxThreads, w \in WriteOutcomes : TestRun(t, w)
    \/ Boot
    \/ \E account_idx \in {None} \cup (0..(MaxAccounts - 1)),
          excluded_courses \in FormExcluded, saved \in BOOLEAN :
            ManageAccounts(account_idx, excluded_courses, saved)
    \/ \E account_idx \in 0..(MaxAccounts - 1), saved \in BOOLEAN :
            DeleteAccount(account_idx, saved)
    \/ RunTest

----------------------------------------------------------------------------
(* The web handlers applied to a process in which some schedulers have      *)
(* ended                                                                    *)

\* Accounts in the configuration and threads started, in the behaviours that
\* follow the handlers alone.
ReconcileAccounts == 3
ReconcileThreads == 6

\* The process was started on Tuesday at 23:50 ...
ReconcileStart == DaySecs + 23 * HourSecs + 50 * MinuteSecs

\* ... and the update job ran at 00:05 on Wednesday.
ReconcileUpdate == NextRun(ReconcileStart, AtTime(T_0005))

\* The next instant a job of job_list is due.
NextDue(job_list) ==
    LET due == {job_list[i].next_run : i \in DOMAIN job_list}
    IN  CHOOSE d \in due : \A e \in due : d <= e

ReconcileNext ==
    \/ HealthCheck
    \/ \E account_idx \in {None} \cup (0..(ReconcileAccounts - 1)),
          excluded_courses \in FormExcluded, saved \in BOOLEAN :
            ManageAccountsWithin(account_idx, excluded_courses, saved,
                                 ReconcileAccounts, ReconcileThreads)
    \/ \E account_idx \in 0..(ReconcileAccounts - 1), saved \in BOOLEAN :
            DeleteAccountWithin(account_idx, saved, ReconcileThreads)

----------------------------------------------------------------------------
(* The records under the supervisor: the writes of run_schedulers, the      *)
(* loads and the writes of the attempts at startup and of /run-test         *)

\* Accounts in the configuration and threads started, in the behaviours that
\* follow the records.
RecordAccounts == 1
RecordThreads == 2

\* The values of the form field excluded_courses in these behaviours.
RecordFormExcluded == {<<C_051001>>, <<C_051002>>}

\* The instants the process is started at: Tuesday 23:50, away from every
\* course, and Wednesday 17:50, ten minutes before the start of 051001.
RecordStarts == {DaySecs + 23 * HourSecs + 50 * MinuteSecs,
                 SlotInstant(C_051001, 0) - 10 * MinuteSecs}

RecordNext ==
    \/ BootWithin(RecordThreads)
    \/ \E account_idx \in {None} \cup (0..(RecordAccounts - 1)),
          excluded_courses \in RecordFormExcluded, saved \in BOOLEAN :
            ManageAccountsWithin(account_idx, excluded_courses, saved,
                                 RecordAccounts, RecordThreads)
    \/ \E account_idx \in 0..(RecordAccounts - 1), saved \in BOOLEAN :
            DeleteAccountWithin(account_idx, saved, RecordThreads)
    \/ RunTestWithin(RecordThreads)
    \/ \E t \in 1..RecordThreads, w \in WriteOutcomes : StartupRun(t, w)
    \/ \E t \in 1..RecordThreads, w \in WriteOutcomes : TestRun(t, w)
    \/ \E t \in 1..RecordThreads, signed \in SUBSET OfferedCourses,
          written \in BOOLEAN, w \in WriteOutcomes : EndAttempt(t, signed, written, w)

\* The supervisor and its schedulers, without the web handlers.
FleetNext ==
    \/ Boot
    \/ ThreadNext

----------------------------------------------------------------------------
(* Specifications *)

InitCalendar == CalInit /\ StoreIdle /\ WfIdle /\ SvIdle /\ files = <<>>

SpecCalendar == InitCalendar /\ [][CalNext]_vars

InitStore == StoreInit /\ CalIdle /\ WfIdle /\ SvIdle /\ files = (0 :> FreshFile)

SpecStore == InitStore /\ [][StoreNext]_vars

InitWorkflow ==
    /\ WfIdle /\ CalIdle /\ StoreIdle /\ SvIdle
    /\ files \in { (0 :> f) : f \in WfInitialFiles }

SpecWorkflow == InitWorkflow /\ [][WfNext]_vars

\* A credentials file as an operator writes it by hand: email and password,
\* no third line and no newline after the password.
TwoLineFile == EMAIL \o <<NL>> \o PASSWORD

\* python app.py scheduler <credentials_file>: one scheduler in the main
\* thread, on a record without courses, with 051001 registered, or of two
\* lines.
InitScheduler ==
    /\ CalIdle /\ StoreIdle /\ WfIdle
    /\ clock \in NowSamples /\ ticks = 0
    /\ accounts = <<>>
    /\ threads = <<NewThread("main", 0, 0, "start")>>
    /\ files \in { (0 :> FreshFile),
                   (0 :> WriteLines(UpdatedLines(ReadLines(FreshFile), {C_051001}, {}, {}))),
                   (0 :> TwoLineFile) }
    /\ jobs = <<>> /\ computed = NoSchedule /\ booted = FALSE
    /\ health_out = "none" /\ health_in = <<>>

SpecScheduler == InitScheduler /\ [][SchedulerNext]_vars

\* The instant the web process is started at: Tuesday 23:50, a quarter of an
\* hour before the daily update.
SupervisorStarts == {DaySecs + 23 * HourSecs + 50 * MinuteSecs}

\* python app.py: the web process with the accounts of the configuration.
InitSupervisor ==
    /\ CalIdle /\ StoreIdle /\ WfIdle
    /\ clock \in SupervisorStarts /\ ticks = 0
    /\ accounts \in {<<Account(<<>>)>>, <<Account(<<>>), Account(<<C_051002>>)>>}
    /\ threads = <<>>
    /\ files = <<>>
    /\ jobs = <<>> /\ computed = NoSchedule /\ booted = FALSE
    /\ health_out = "none" /\ health_in = <<>>

SpecSupervisor == InitSupervisor /\ [][SupervisorNext]_vars

\* The web process with m accounts on Wednesday at the first course job after
\* the update of 00:05.  The schedulers had started one after the other, so
\* the jobs are those of the last account; its startup run may have
\* truncated its record, and each scheduler of `ended` has then run the due
\* job on that record and ended by sys.exit(1).
InitReconcile ==
    /\ CalIdle /\ StoreIdle /\ WfIdle
    /\ \E m \in 1..ReconcileAccounts, ended \in SUBSET (1..ReconcileAccounts),
          truncated \in BOOLEAN :
          /\ ended \subseteq 1..m
          /\ ended # {} => truncated
          /\ accounts = [i \in 1..m |-> Account(<<>>)]
          /\ threads = [i \in 1..m |->
                          NewThread("scheduler", i - 1, i - 1,
                                    IF i \in ended THEN "dead" ELSE "loop")]
          /\ files = [i \in 0..(m - 1) |->
                        IF i = m - 1 /\ truncated THEN <<>>
                        ELSE CredentialFile(Account(<<>>))]
          /\ jobs = CourseJobsFrom(1, m - 1, ReconcileUpdate)
          /\ computed = [now |-> ReconcileUpdate, path |-> m - 1,
                         jobs |-> CourseJobsFrom(1, m - 1, ReconcileUpdate)]
          /\ clock = NextDue(CourseJobsFrom(1, m - 1, ReconcileUpdate))
    /\ ticks = 2 /\ booted = TRUE
    /\ health_out = "none" /\ health_in = <<>>

SpecReconcile == InitReconcile /\ [][ReconcileNext]_vars

\* The instants the web process with two accounts is started at: Tuesday
\* 23:50, and Wednesday 17:50, three minutes before the deadline of 051001.
FleetStarts == {DaySecs + 23 * HourSecs + 50 * MinuteSecs,
                SlotInstant(C_051001, 0) - 10 * MinuteSecs}

\* python app.py with two accounts in the configuration.
InitFleet ==
    /\ CalIdle /\ StoreIdle /\ WfIdle
    /\ clock \in FleetStarts /\ ticks = 0
    /\ accounts = <<Account(<<>>), Account(<<C_051002>>)>>
    /\ threads = <<>>
    /\ files = <<>>
    /\ jobs = <<>> /\ computed = NoSchedule /\ booted = FALSE
    /\ health_out = "none" /\ health_in = <<>>

SpecFleet == InitFleet /\ [][FleetNext]_vars

\* The web process with one account, which excludes no course, the course
\* on offer or another course.
InitRecords ==
    /\ CalIdle /\ StoreIdle /\ WfIdle
    /\ clock \in RecordStarts /\ ticks = 0
    /\ accounts \in {<<Account(<<>>)>>, <<Account(<<C_051001>>)>>,
                     <<Account(<<C_051002>>)>>}
    /\ threads = <<>>
    /\ files = <<>>
    /\ jobs = <<>> /\ computed = NoSchedule /\ booted = FALSE
    /\ health_out = "none" /\ health_in = <<>>

SpecRecords == InitRecords /\ [][RecordNext]_vars

----------------------------------------------------------------------------
(* C1: for a course of the table, calculate_next_course_time returns an      *)
(* instant on the course's weekday at its start time, not before now, and    *)
(* no start of that course lies in [now, result).                            *)

C1_NextIsEarliestOccurrence ==
    ("next" \in cal_called /\ cal_course \in CourseNumbers) =>
        LET ci == course_day_time_mapping[cal_course]
            st == Strptime(ci.start_time)
        IN  /\ cal_next # None
            /\ Weekday(cal_next) = ci.day_index
            /\ TimeOfDay(cal_next) = st.hour * HourSecs + st.minute * MinuteSecs
            /\ cal_next >= cal_now
            /\ \A k \in 0..(NumWeeks + 1) :
                   ~(cal_now <= SlotInstant(cal_course, k)
                       /\ SlotInstant(cal_course, k) < cal_next)

\* The course starts exactly now and the function has returned.
C1_Witness ==
    /\ "next" \in cal_called
    /\ cal_course \in CourseNumbers
    /\ cal_now = SlotInstant(cal_course, 0)
    /\ cal_next = cal_now

----------------------------------------------------------------------------
(* C7: for a course of the table, course_has_just_started is true exactly   *)
(* when now is at most 2500 seconds away from the course's start in the     *)
(* Monday-to-Sunday week that holds now: true at start + 2500 s, false at   *)
(* start + 2501 s.                                                          *)

\* Start of course c in the calendar week of t, from the table alone.
ThisWeeksOccurrence(c, t) == SlotInstant(c, t \div WeekSecs)

----------------------------------------------------------------------------
(* C5: a record saved with disjoint sets and loaded while no registered     *)
(* course is within 2500 s of its start gives back the same two sets, and   *)
(* its course line holds the registered ids ascending, then the excluded    *)
(* ids ascending, each after "!", joined by ", ".                           *)

\* "051001, 051011, !051003\n"
C5_ExampleLine ==
    C_051001 \o <<COMMA, SPACE>> \o C_051011 \o <<COMMA, SPACE, BANG>> \o C_051003
        \o <<NL>>

\* No registered course is within the pruning window at t.
OutsideEveryWindow(days, t) ==
    \A c \in days \cap CourseNumbers : Abs(t - ThisWeeksOccurrence(c, t)) > 2500

\* line is reg ascending, then exc ascending each after "!", joined by ", ".
IsCourseLineOf(line, reg, exc) ==
    LET n == Cardinality(reg)
        m == Cardinality(exc)
    IN  /\ line # <<>> /\ line[Len(line)] = NL
        /\ IF n + m = 0 THEN line = <<NL>>
           ELSE LET parts == Split(SubSeq(line, 1, Len(line) - 1), COMMA)
                    tok(i) == IF i = 1 THEN parts[1] ELSE Tail(parts[i])
                IN  /\ Len(parts) = n + m
                    /\ \A i \in 2..Len(parts) : parts[i] # <<>> /\ Head(parts[i]) = SPACE
                    /\ \A i \in 1..n : tok(i) \in reg
                    /\ \A i \in 1..n, j \in 1..n : i < j => StrLess(tok(i), tok(j))
                    /\ \A i \in (n + 1)..(n + m) :
                           /\ tok(i) # <<>> /\ Head(tok(i)) = BANG
                           /\ Tail(tok(i)) \in exc
                    /\ \A i \in (n + 1)..(n + m), j \in (n + 1)..(n + m) :
                           i < j => StrLess(Tail(tok(i)), Tail(tok(j)))

C5_SaveLoadRoundTrip ==
    (st_pc = "loaded" /\ OutsideEveryWindow(st_registered, st_now)) =>
        /\ ~st_out.exit
        /\ st_out.existing_days = st_registered
        /\ st_out.excluded_days = st_excluded
        /\ Len(ReadLines(files[0])) = 3
        /\ IsCourseLineOf(ReadLines(files[0])[3], st_registered, st_excluded)
        /\ (st_registered = {C_051001, C_051011} /\ st_excluded = {C_051003}
              => ReadLines(files[0])[3] = C5_ExampleLine)

\* The example record has been saved and loaded back.
C5_Witness ==
    /\ st_pc = "loaded"
    /\ st_registered = {C_051001, C_051011}
    /\ st_excluded = {C_051003}
    /\ OutsideEveryWindow(st_registered, st_now)
    /\ st_out.existing_days = st_registered

----------------------------------------------------------------------------
(* C6: a load 41 minutes after the start of a registered course c returns   *)
(* a registered set without c, the file then no longer lists c, and every   *)
(* excluded id and every other registered id is kept (amended: every other  *)
(* registered id that is not itself within 2500 s of its own start).        *)

\* The ids the third line of the file lists as registered and as excluded.
ListedRegistered(content) ==
    {d \in SeqToSet(DayTokens(ReadLines(content)[3])) : d # <<>> /\ Head(d) # BANG}
ListedExcluded(content) ==
    {Tail(d) : d \in {x \in SeqToSet(DayTokens(ReadLines(content)[3])) :
                          x # <<>> /\ Head(x) = BANG}}

FortyOneMinutes == 41 * 60

\* The courses whose start was 41 minutes before t.
Started41MinutesAgo(t) ==
    {c \in CourseNumbers : t = ThisWeeksOccurrence(c, t) + FortyOneMinutes}

InsideWindow(t) ==
    {c \in CourseNumbers : Abs(t - ThisWeeksOccurrence(c, t)) <= 2500}

----------------------------------------------------------------------------
(* Readings of the log and of the file used by the workflow claims *)

\* The events logged for coursenr in this invocation.
EventsOf(coursenr) == {log[i][2] : i \in {j \in 1..Len(log) : log[j][1] = coursenr}}

\* How many entries of the log are <<coursenr, event>>.
TimesLogged(coursenr, event) ==
    Cardinality({i \in 1..Len(log) : log[i] = <<coursenr, event>>})

\* How many tokens of a course line are the id d.
Occurrences(d, line) ==
    Cardinality({i \in 1..Len(DayTokens(line)) : DayTokens(line)[i] = d})

\* The ids the file lists as registered; none if it has no third line.
PersistedRegistered ==
    IF 0 \in DOMAIN files /\ Len(ReadLines(files[0])) >= 3
    THEN ListedRegistered(files[0]) ELSE {}

\* How often the third line of the file lists d as registered.
PersistedOccurrences(d) ==
    IF 0 \in DOMAIN files /\ Len(ReadLines(files[0])) >= 3
    THEN Occurrences(d, ReadLines(files[0])[3]) ELSE 0

----------------------------------------------------------------------------
(* C3: when a course that was neither registered nor excluded is listed,    *)
(* every step for it succeeds and the confirmation page is seen, then at    *)
(* the return of the invocation it has exactly one Success outcome and the  *)
(* persisted course line contains it.  (Stated for invocations whose final  *)
(* write, if made, did not fail.)                                           *)

C3_SuccessIsPersisted ==
    (pc = "done" /\ write_result \notin {"denied", "truncated"}) =>
        \A c \in SeqToSet(available_days) :
            "success" \in EventsOf(c) =>
                /\ TimesLogged(c, "success") = 1
                /\ c \in PersistedRegistered

----------------------------------------------------------------------------
(* C4: two invocations in succession for an account in which X is           *)
(* registered: X is met with "already registered" both times, no booking    *)
(* click is made for X, no error is logged for X and the persisted record   *)
(* lists X exactly once.  Amended: this holds for invocations more than     *)
(* 2500 s away from X's start, where the Filter skips X; a load within the  *)
(* window removes X and X is attempted again.                               *)

----------------------------------------------------------------------------
(* C8: when the 15-minute budget is exceeded after a course resolved as     *)
(* Success or AlreadyRegistered, the remaining courses are not attempted    *)
(* and the resolved courses are written to the persisted record before the  *)
(* invocation returns.                                                      *)

\* check_timeout raised at the head of the loop in this invocation.
TimedOutInLoop == \E i \in 1..Len(log) : log[i][2] = "timed_out"

C8_ResolvedKeptOnTimeout ==
    (pc = "done" /\ TimedOutInLoop /\ signed_up_days # {}) =>
        /\ signed_up_days \subseteq PersistedRegistered
        /\ \A i \in (idx + 2)..Len(available_days) : EventsOf(available_days[i]) = {}

----------------------------------------------------------------------------
(* C9: whenever the attempt for a course has ended, on any branch, and the  *)
(* next course is about to be processed (or the loop is over), no secondary *)
(* window is open and the original window has the focus.                    *)

C9_WindowsClosedBetweenCourses ==
    pc \in {"loop", "click", "write"} =>
        /\ ~new_window_open
        /\ focus = "original"

\* An attempt that had its window open was ended by the budget check after
\* the login, and the loop goes on.
C9_Witness ==
    /\ pc = "loop"
    /\ idx >= 1
    /\ \E i \in 1..Len(log) : log[i][2] = "timed_out_in_attempt"

----------------------------------------------------------------------------
(* C2: the schedule computed by schedule_course_registrations at now holds  *)
(* an entry for course c exactly when the registration deadline of c's next *)
(* occurrence, 7 minutes before its start, is strictly later than now; the  *)
(* entry is for the caller's file and set at the deadline's time of day.    *)

\* Earliest start of c at or after t, from the table alone.
NextOccurrence(c, t) ==
    IF SlotInstant(c, t \div WeekSecs) >= t
    THEN SlotInstant(c, t \div WeekSecs)
    ELSE SlotInstant(c, (t \div WeekSecs) + 1)

Deadline(c, t) == NextOccurrence(c, t) - 7 * 60

\* The positions of the entries for c in the computed schedule.
EntriesFor(c) ==
    {i \in DOMAIN computed.jobs :
        computed.jobs[i].kind = "course" /\ computed.jobs[i].tag = c}

C2_EntryIffDeadlineAhead ==
    computed.now # None =>
        /\ \A c \in CourseNumbers :
              /\ EntriesFor(c) # {} <=> Deadline(c, computed.now) > computed.now
              /\ Cardinality(EntriesFor(c)) <= 1
              /\ \A i \in EntriesFor(c) :
                    /\ computed.jobs[i].path = computed.path
                    /\ computed.jobs[i].at = Deadline(c, computed.now) % DaySecs
        /\ \A i \in DOMAIN computed.jobs : computed.jobs[i].tag \in CourseNumbers

\* A schedule computed exactly at the deadline of 051001 (Wednesday 17:53):
\* 051001 is left out, 0510011 (deadline 18:23) is in.
C2_Witness ==
    /\ computed.now = SlotInstant(C_051001, 0) - 7 * 60
    /\ EntriesFor(C_051001) = {}
    /\ EntriesFor(C_0510011) # {}

----------------------------------------------------------------------------
(* C10: at no reachable state are two attempts of the workflow in flight on *)
(* the same credentials file, whatever the scheduler threads, /run-test and *)
(* the restarts of save_accounts do.                                        *)

C10_OneAttemptPerAccount ==
    \A t1, t2 \in DOMAIN threads :
        (t1 # t2 /\ InFlight(t1) /\ InFlight(t2)) =>
            threads[t1].attempt.path # threads[t2].attempt.path

----------------------------------------------------------------------------
(* C11: with two or more accounts, the scheduler thread of account A never  *)
(* runs the workflow on the file of another account B, and a schedule       *)
(* computed for A leaves every job of B, course job or update job, in the   *)
(* list as it was.                                                          *)

\* Scheduler thread t is in an attempt on its own file.
OnOwnRecord(t) ==
    (threads[t].kind = "scheduler" /\ InFlight(t)) =>
        threads[t].attempt.path = threads[t].path

C11_AccountsKeptApart ==
    [][ /\ \A t \in DOMAIN threads' : OnOwnRecord(t)'
        /\ computed' # computed =>
              \A i \in DOMAIN jobs :
                  jobs[i].path # computed'.path =>
                      \E k \in DOMAIN jobs' : jobs'[k] = jobs[i] ]_vars

----------------------------------------------------------------------------
(* C12: a restart of the schedulers made with 3 configured accounts while 1 *)
(* scheduler is live ends with exactly 3 live schedulers, one for each      *)
(* account; the health check is false before it and true after it.          *)

\* The live scheduler threads of thread_list started for user{i}.txt.
SchedulersOf(thread_list, i) ==
    {t \in DOMAIN thread_list :
        /\ thread_list[t].kind = "scheduler"
        /\ thread_list[t].pc # "dead"
        /\ thread_list[t].path = i}

LiveSchedulers(thread_list) ==
    {t \in DOMAIN thread_list :
        thread_list[t].kind = "scheduler" /\ thread_list[t].pc # "dead"}

C12_RestartEndsWithOnePerAccount ==
    [][ ( /\ Len(threads') > Len(threads)
          /\ Len(accounts') = 3
          /\ Cardinality(LiveSchedulers(threads)) = 1 )
        => /\ Cardinality(LiveSchedulers(threads)) < Len(accounts')
           /\ check_scheduler_health'
           /\ Cardinality(LiveSchedulers(threads')) = 3
           /\ \A i \in 0..2 : Cardinality(SchedulersOf(threads', i)) = 1 ]_vars

----------------------------------------------------------------------------
(* C14: check_scheduler_health returns true exactly when the live scheduler *)
(* threads are at least as many as the configured accounts.                 *)

C14_HealthIffEnoughSchedulers ==
    health_out # "none" =>
        (health_out = "True" <=> Cardinality(LiveSchedulers(health_in[2])) >= health_in[1])

\* The check returned true with exactly as many live schedulers as accounts,
\* and false with one scheduler ended.
C14_Witness ==
    /\ health_out = "True"
    /\ health_in[1] > 0
    /\ Cardinality(LiveSchedulers(health_in[2])) = health_in[1]
    /\ \E t \in DOMAIN health_in[2] : health_in[2][t].pc = "dead"

----------------------------------------------------------------------------
(* C13: after account additions, edits and removals the live scheduler      *)
(* threads come to match the configured accounts: a scheduler whose account *)
(* was removed, or that a restart superseded, exits, and no account keeps   *)
(* more than one live scheduler.  Stated for the states in which every      *)
(* thread has finished its startup and sleeps in its loop with no job due.  *)

Settled ==
    /\ booted
    /\ \A t \in DOMAIN threads : threads[t].pc \in {"loop", "dead"}
    /\ Runnable(jobs, clock) = <<>>

C13_LiveSchedulersMatchAccounts ==
    Settled =>
        /\ \A i \in 0..(Len(accounts) - 1) :
              Cardinality(SchedulersOf(threads, i)) <= 1
        /\ \A t \in LiveSchedulers(threads) : threads[t].path < Len(accounts)

----------------------------------------------------------------------------
(* C15: a missing or malformed record of account A ends only A's scheduler: *)
(* a scheduler thread ends only on the record of its own account, so the    *)
(* schedulers of the other accounts stay alive.                             *)

\* The file scheduler thread t loads in its next attempt.
RecordLoadedBy(t) ==
    IF threads[t].pc = "run_job" THEN Head(threads[t].pending).path
    ELSE threads[t].path

C15_ErrorEndsOnlyItsOwnScheduler ==
    [][ \A t \in DOMAIN threads :
          ( /\ threads[t].kind = "scheduler"
            /\ threads[t].pc # "dead"
            /\ threads'[t].pc = "dead" )
          => RecordLoadedBy(t) = threads[t].path ]_vars

----------------------------------------------------------------------------
(* C16: a running scheduler recomputes its schedule at startup and at 00:05 *)
(* on every following day: after each daily recomputation the job of the    *)
(* daily update is still scheduled.  Stated for the standalone scheduler:   *)
(* once it has reached its loop, the update job for its file is in the list *)
(* of jobs.                                                                 *)

UpdateJobsOf(path) ==
    {i \in DOMAIN jobs : jobs[i].kind = "update" /\ jobs[i].path = path}

C16_UpdateJobStaysScheduled ==
    \A t \in DOMAIN threads :
        threads[t].pc \in {"loop", "run_job", "in_job"} =>
            UpdateJobsOf(threads[t].path) # {}

\* C17: in every record that is on disk, no course id is listed both as
\* registered (bare) and as excluded (with the "!" in front); the records
\* are read back from the text of the files, those written from the account
\* configuration, those written by an attempt and those pruned at a load.
\* A file that lost its third line holds no record.
HoldsRecord(content) == Len(ReadLines(content)) >= 3

C17_RegisteredAndExcludedDisjoint ==
    \A p \in DOMAIN files :
        HoldsRecord(files[p]) =>
            ListedRegistered(files[p]) \cap ListedExcluded(files[p]) = {}

\* A record that lists a registered and an excluded course, written by an
\* attempt on a record the account configuration had written.
C17_Witness ==
    \E p \in DOMAIN files :
        /\ HoldsRecord(files[p])
        /\ ListedRegistered(files[p]) # {}
        /\ ListedExcluded(files[p]) # {}
        /\ p + 1 \in DOMAIN accounts
        /\ accounts[p + 1].courses # <<>>

\* An attempt ended on a record whose account excludes the only course on
\* offer: the course was not attempted and the record does not list it.
C17_WitnessExcludedOffered ==
    \E p \in DOMAIN files :
        /\ HoldsRecord(files[p])
        /\ OfferedCourses \subseteq ListedExcluded(files[p])
        /\ \E t \in DOMAIN threads :
              threads[t].path = p /\ threads[t].kind = "scheduler" /\ threads[t].pc = "schedule"

\* The registered ids of the record on disk at path p, read from its text.
RegisteredOf(file_map, p) ==
    IF p \in DOMAIN file_map /\ HoldsRecord(file_map[p])
    THEN ListedRegistered(file_map[p]) ELSE {}

\* The step ends an attempt that had loaded the record at p.
AttemptEndsOn(p) ==
    \E t \in DOMAIN threads :
        /\ InFlight(t) /\ threads[t].attempt.path = p
        /\ threads'[t].attempt = NoAttempt

\* The step is a load of the record at p by a thread.
LoadOf(p) ==
    \E t \in DOMAIN threads :
        /\ ~InFlight(t) /\ threads[t].pc # "dead"
        /\ RecordLoadedBy(t) = p
        /\ \/ InFlight(t)' /\ threads'[t].attempt.path = p
           \/ threads'[t].pc = "dead"

\* C18: the registered set of a record on disk changes only in a step that
\* ends an attempt on that record, which adds ids, or in a load of that
\* record, which removes ids; every other step, the saving of an account
\* edit, addition or removal with its scheduler restart included, leaves it
\* as it was.
C18_RegisteredChangesOnlyByItsAttempts ==
    [][ \A p \in DOMAIN files :
            RegisteredOf(files', p) # RegisteredOf(files, p) =>
                \/ AttemptEndsOn(p) /\ RegisteredOf(files, p) \subseteq RegisteredOf(files', p)
                \/ LoadOf(p) /\ RegisteredOf(files', p) \subseteq RegisteredOf(files, p)
      ]_vars

\* The course jobs for course c on the record at path a that have run at the
\* present instant: run_pending has moved their next run to a later day.
RanNow(a, c) ==
    {i \in DOMAIN jobs : /\ jobs[i].kind = "course"
                         /\ jobs[i].path = a /\ jobs[i].tag = c
                         /\ jobs[i].next_run > clock}

\* C19: under the supervisor with two accounts or more, whose schedulers all
\* finished their startup at an earlier instant, when the clock stands at the
\* deadline of a course c and every thread sleeps again with nothing left
\* due, the workflow has been invoked at this instant on the record of every
\* account whose scheduler is alive.  "Eventually at the deadline" is stated
\* at the deadline itself, so that a finite run settles it.
C19_EveryAccountInvokedAtDeadline ==
    (Settled /\ Len(accounts) >= 2 /\ ticks >= 1 /\ Len(threads) = Len(accounts)) =>
        \A c \in CourseNumbers :
            clock = Deadline(c, clock) =>
                \A a \in 0..(Len(accounts) - 1) :
                    SchedulersOf(threads, a) # {} => RanNow(a, c) # {}

\* The course whose job thread t is running.
FiredFor(t) == Head(threads[t].pending).tag

\* C20: whenever a scheduler has invoked the workflow from a job of its
\* schedule (the startup run and /run-test are other invocations), the
\* instant is the deadline of an occurrence of the job's course: 7 minutes
\* before its start, on the weekday the table gives for that course.
C20_FiresOnlyAtDeadlineOnWeekday ==
    \A t \in DOMAIN threads :
        threads[t].pc = "in_job" =>
            /\ FiredFor(t) \in CourseNumbers
            /\ clock = Deadline(FiredFor(t), clock)

----------------------------------------------------------------------------
(* C21: in an invocation no booking button is clicked for a course that the *)
(* record loaded at its start lists as excluded or as registered: neither   *)
(* the id the loop is processing nor the id of the row whose button is      *)
(* clicked is in one of the two sets.                                       *)

C21_NoClickForExcludedOrRegistered ==
    \A k \in clicks :
        /\ k[1] \notin excluded_days \cup existing_days
        /\ k[2] \notin excluded_days \cup existing_days

----------------------------------------------------------------------------
(* C22: a bookable row whose label is not a key of the course table is      *)
(* skipped: no booking button is clicked while the loop processes that      *)
(* label, and the label is never put among the ids signed up for nor        *)
(* written to the record as registered.                                     *)

C22_UnknownLabelIsSkipped ==
    /\ \A k \in clicks : k[1] \in CourseNumbers
    /\ signed_up_days \subseteq CourseNumbers
    /\ (write_result = "ok" /\ pc \in {"finally", "done"}) =>
            PersistedRegistered \ existing_days \subseteq CourseNumbers

----------------------------------------------------------------------------
(* C23: when a step has failed for a course (no new window, no booking      *)
(* button, a login element missing, a terms, submit or confirm element      *)
(* missing, an unknown result page) and the time budget was not exceeded,   *)
(* the invocation still reaches the click step for every discovered course  *)
(* that passes the Filter, and it writes the record before it returns: the  *)
(* course line written lists the registered ids loaded and those signed up  *)
(* for.                                                                     *)

FailureEvents ==
    {"no_new_window", "no_booking", "error_processing", "error_registration",
     "unknown_status"}

\* A step failed for some course in this invocation.
SomeStepFailed == \E i \in 1..Len(log) : log[i][2] \in FailureEvents

\* The loop reached the click step for coursenr: a button was clicked, or
\* the page had no button left at its position.
ReachedClick(coursenr) ==
    \/ \E k \in clicks : k[1] = coursenr
    \/ "index_out_of_bounds" \in EventsOf(coursenr)

C23_StepFailureEndsOnlyItsCourse ==
    (pc = "done" /\ SomeStepFailed /\ ~over_budget) =>
        /\ \A i \in 1..Len(available_days) :
              available_days[i] \notin excluded_days \cup existing_days
                  => ReachedClick(available_days[i])
        /\ write_result \in WriteOutcomes
        /\ SeqToSet(DayTokens(lines[3])) \ {<<>>} =
              existing_days \cup signed_up_days \cup {<<BANG>> \o d : d \in excluded_days}
        /\ write_result = "ok" => PersistedRegistered = existing_days \cup signed_up_days

\* The first of two courses failed at a step, the second was booked after
\* it, and the record was written.
C23_Witness ==
    /\ pc = "done" /\ ~over_budget /\ write_result = "ok"
    /\ Len(available_days) = 2
    /\ EventsOf(available_days[1]) \cap FailureEvents # {}
    /\ "success" \in EventsOf(available_days[2])
    /\ available_days[2] \in PersistedRegistered

----------------------------------------------------------------------------
(* C24: at the return of an invocation the record lists a course id as      *)
(* registered that the load had not found registered if and only if the     *)
(* attempt for that course read the result page and found the confirmation  *)
(* title (Success) or the booking-already-exists text (AlreadyRegistered).   *)
(* Stated for invocations whose final write, if made, did not fail.         *)

\* The attempt for coursenr was classified as Success or AlreadyRegistered.
Resolved(coursenr) ==
    EventsOf(coursenr) \cap {"success", "already_registered"} # {}

C24_AddedIffResolved ==
    (pc = "done" /\ write_result \notin {"denied", "truncated"}) =>
        \A c \in SeqToSet(available_days) \cup PersistedRegistered :
            (c \in PersistedRegistered /\ c \notin existing_days) <=> Resolved(c)

----------------------------------------------------------------------------
(* C25: a load of the record removes a registered course of the table only  *)
(* when the occurrence of that course in the week of the load has begun     *)
(* (start <= now); a load before the start, as the one at the registration  *)
(* time 7 minutes before it, removes nothing.                               *)

C25_PrunedOnlyAfterStart ==
    (st_pc = "loaded" /\ ~st_out.exit) =>
        \A c \in st_out.removed \cap CourseNumbers :
            ThisWeeksOccurrence(c, st_now) <= st_now

----------------------------------------------------------------------------
(* C26: in an invocation started at the registration time of a course c of  *)
(* the table, 7 minutes before a start of c, the load has taken c out of    *)
(* the registered set: c is not in existing_days when the Filter runs, the  *)
(* Filter does not skip c as already registered, and the record on disk no  *)
(* longer lists c until the invocation writes it again.                     *)

\* The courses whose registration time is the instant t.
DueAt(t) == {c \in CourseNumbers : t = Deadline(c, t)}

----------------------------------------------------------------------------
(* C27: when the write of the record at the end of an invocation has        *)
(* failed, the invocation goes on to its return and the file is still a     *)
(* record that can be loaded: it has its first two lines, with the email    *)
(* and the password the invocation loaded, and its course line lists the    *)
(* registered and the excluded ids the invocation loaded.                   *)

\* The final write of this invocation failed.
WriteFailed == pc \in {"finally", "done"} /\ write_result \in {"denied", "truncated"}

C27_FailedWriteLeavesRecordLoadable ==
    WriteFailed =>
        /\ Len(ReadLines(files[0])) >= 2
        /\ ~read_credentials_file(files[0], current_time, "ok").exit
        /\ Strip(ReadLines(files[0])[1]) = email
        /\ Strip(ReadLines(files[0])[2]) = password
        /\ PersistedRegistered = existing_days
        /\ HoldsRecord(files[0]) /\ ListedExcluded(files[0]) = excluded_days

----------------------------------------------------------------------------
(* C28: an invocation that made a driver has quit it when it returns, on    *)
(* every path (the loop ended, the budget was exceeded, an exception); an   *)
(* invocation whose setup_webdriver failed returns without a driver to      *)
(* quit, having used no page, and without ending the process.  Amended:     *)
(* such an invocation makes no write after its load, so the record is as    *)
(* the load left it; the load itself may have pruned the record.            *)

\* The invocation returned and setup_webdriver had raised.
ReturnedWithoutDriver == pc = "done" /\ driver = "none"

\* Every course the load of this invocation removed had begun.
PrunedAfterStart ==
    \A c \in (first_registered \ existing_days) \cap CourseNumbers :
        ThisWeeksOccurrence(c, current_time) <= current_time

C28_WitnessTimeout ==
    /\ pc = "done" /\ driver = "quit" /\ TimedOutInLoop

----------------------------------------------------------------------------
(* C29: a write of a loadable record, by the pruning of a load or at the    *)
(* end of an attempt, that does not fail leaves the first two lines as they *)
(* were: the email and the password read back after the write are those     *)
(* read before it.  The records include one of two lines whose second line  *)
(* has no newline.                                                          *)

\* The email and the password read_credentials_file takes from a file.
IdentityOf(content) == <<Strip(ReadLines(content)[1]), Strip(ReadLines(content)[2])>>

Loadable(content) == Len(ReadLines(content)) >= 2

C29_WriteKeepsEmailAndPassword ==
    [][ \A p \in DOMAIN files :
            (files'[p] # files[p] /\ Loadable(files[p]) /\ files'[p] # <<>>) =>
                /\ Loadable(files'[p])
                /\ IdentityOf(files'[p]) = IdentityOf(files[p])
      ]_vars

----------------------------------------------------------------------------
(* C30: every booking button the loop clicks while it processes the label c *)
(* is the button of the page row labelled c, so that an id signed up for is *)
(* the id of a row whose button was clicked; also when a label could not be *)
(* read during discovery or a row has left the page since.                  *)

C30_ClickedRowIsTheCourseProcessed ==
    /\ \A k \in clicks : k[2] = k[1]
    /\ \A c \in signed_up_days : \E k \in clicks : k[2] = c

============================================================================
